---- MODULE Spec2Model ----
(***************************************************************************)
(* A model of src/seqan_align.cpp of Unicycler: the semi-global alignment  *)
(* of one read against all references (semiGlobalAlignmentAllRefs), its    *)
(* per-level driver (semiGlobalAlignmentAllRefsOneLevel), the band-doubling *)
(* refinement (semiGlobalAlignmentOneLine / ...OneBand) and                *)
(* getReverseComplement.                                                   *)
(*                                                                         *)
(* Four groups of variables carry the specifications, among them:          *)
(*   SpecRC    getReverseComplement applied once and twice to a string     *)
(*   SpecLine  one call of semiGlobalAlignmentOneLine                      *)
(*   Spec      one call of semiGlobalAlignmentAllRefs on a shared index    *)
(*   SpecConc  several interleaved calls of semiGlobalAlignmentAllRefs     *)
(*   SpecExt   one call of startExtensionAlignment or endExtensionAlignment *)
(* SpecFail, SpecNames and SpecVerbose are Spec with a throwing             *)
(* collaborator, with clashing reference names and at verbosity 3.         *)
(* A specification leaves the variables of the other groups untouched.     *)
(***************************************************************************)
EXTENDS Integers, Sequences, FiniteSets, TLC

VARIABLES
    \* ---- getReverseComplement ----
    sequence,            \* the argument of getReverseComplement
    reverseComplement,   \* its result
    reverseTwice,        \* the result of applying it to its own result
    rcPc,                \* "init" | "once" | "twice"
    \* ---- semiGlobalAlignmentOneLine ----
    bandSize,            \* the requested band width (local of OneLine)
    bestAlignment,       \* Null or the retained SemiGlobalAlignment
    bestAlignmentScore,  \* double, on the grid described at DBL_MIN
    attempts,            \* history: one record per call of ...OneLineOneBand
    lineOutput,          \* the text appended to output by the band attempts
    readLength,          \* readSeq->length()
    trimmedRefLength,    \* line->m_trimmedRefEnd - line->m_trimmedRefStart
    lineVerbosity,       \* the verbosity argument
    linePc,              \* "loop" | "finish" | "returned"
    \* ---- semiGlobalAlignmentAllRefs ----
    index,               \* kmerPositions: name -> sequence
    call,                \* per invocation: the locals of semiGlobalAlignmentAllRefs
    \* ---- startExtensionAlignment / endExtensionAlignment ----
    extRead,             \* the read argument (sequenceH)
    extRef,              \* the ref argument (sequenceV)
    extScoring,          \* the four score arguments
    extAlignment,        \* what globalAlignment was called with and its score
    extReturn,           \* the returned buffer
    extPc                \* "init" | "start" | "end"

rcVars   == <<sequence, reverseComplement, reverseTwice, rcPc>>
lineVars == <<bandSize, bestAlignment, bestAlignmentScore, attempts, lineOutput,
              readLength, trimmedRefLength, lineVerbosity, linePc>>
mainVars == <<index, call>>
extVars  == <<extRead, extRef, extScoring, extAlignment, extReturn, extPc>>
vars     == <<rcVars, lineVars, mainVars, extVars>>

\* ------------------------------------------------------------------------
\* Bounds
\* ------------------------------------------------------------------------
\* Longest string handed to getReverseComplement.
MaxLen == 3

\* ------------------------------------------------------------------------
\* getReverseComplement (lines 414-447)
\* ------------------------------------------------------------------------
\* The letters that have a case in the switch.
TableLetters ==
    {"A", "T", "G", "C", "R", "Y", "S", "W", "K", "M",
     "B", "D", "H", "V", "N", ".", "-", "?", "*"}

\* Letters with no case in the switch: a lower-case base and a non-IUPAC letter.
OtherLetters == {"a", "X"}

Letters == TableLetters \cup OtherLetters

\* A complement table that forgets to swap K and M.
ComplementNoKM(letter) ==
    CASE letter = "A" -> "T" [] letter = "T" -> "A"
      [] letter = "G" -> "C" [] letter = "C" -> "G"
      [] letter = "R" -> "Y" [] letter = "Y" -> "R"
      [] letter = "S" -> "S" [] letter = "W" -> "W"
      [] letter = "K" -> "M" [] letter = "M" -> "M"
      [] letter = "B" -> "V" [] letter = "D" -> "H"
      [] letter = "H" -> "D" [] letter = "V" -> "B"
      [] OTHER -> letter

\* The character pushed for a letter that has a case (the case labels of the switch).
Complement(letter) ==
    CASE letter = "A" -> "T" [] letter = "T" -> "A"
      [] letter = "G" -> "C" [] letter = "C" -> "G"
      [] letter = "R" -> "Y" [] letter = "Y" -> "R"
      [] letter = "S" -> "S" [] letter = "W" -> "W"
      [] letter = "K" -> "M" [] letter = "M" -> "K"
      [] letter = "B" -> "V" [] letter = "D" -> "H"
      [] letter = "H" -> "D" [] letter = "V" -> "B"
      [] letter = "N" -> "N" [] letter = "." -> "."
      [] letter = "-" -> "-" [] letter = "?" -> "?"
      [] letter = "*" -> "*"

\* One pass of the loop body: the switch has no default, so a letter without a
\* case pushes nothing.
SwitchLetter(letter) ==
    IF letter \in TableLetters THEN <<Complement(letter)>> ELSE <<>>

\* for (int i = sequence.length() - 1; i >= 0; --i), here over 1-based positions.
RECURSIVE ReverseComplementFrom(_, _)
ReverseComplementFrom(s, i) ==
    IF i < 1 THEN <<>>
    ELSE SwitchLetter(s[i]) \o ReverseComplementFrom(s, i - 1)

getReverseComplement(s) == ReverseComplementFrom(s, Len(s))

\* All strings of at most MaxLen letters.
Strings == UNION {[1..n -> Letters] : n \in 0..MaxLen}

RCInit ==
    /\ sequence \in Strings
    /\ reverseComplement = <<>>
    /\ reverseTwice = <<>>
    /\ rcPc = "init"

\* negReadSeq = getReverseComplement(posReadSeq)
ReverseOnce ==
    /\ rcPc = "init"
    /\ reverseComplement' = getReverseComplement(sequence)
    /\ rcPc' = "once"
    /\ UNCHANGED <<sequence, reverseTwice, lineVars, mainVars, extVars>>

\* getReverseComplement applied to the result of the first application.
ReverseAgain ==
    /\ rcPc = "once"
    /\ reverseTwice' = getReverseComplement(reverseComplement)
    /\ rcPc' = "twice"
    /\ UNCHANGED <<sequence, reverseComplement, lineVars, mainVars, extVars>>

RCIdle ==
    /\ sequence = <<>>
    /\ reverseComplement = <<>>
    /\ reverseTwice = <<>>
    /\ rcPc = "unused"

\* ------------------------------------------------------------------------
\* semiGlobalAlignmentOneLine and semiGlobalAlignmentOneLineOneBand
\* ------------------------------------------------------------------------
\* settings.h is not among the sources; the two band constants are taken as
\* the "fixed initial value" and "fixed ceiling" of the specification.
STARTING_BAND_SIZE == 10
MAX_BAND_SIZE == 160

\* Doubles are kept on an integer grid that preserves their order: every
\* scaled score of the model is an even number and
\* std::numeric_limits<double>::min(), the smallest POSITIVE double, is 1,
\* so that 0 < DBL_MIN < any positive score.
DBL_MIN == 1

\* The scaled scores the alignment primitive may report (negative, zero, positive).
LineScores == {-2, 0, 2, 4}

\* What bandedChainAlignment does at one band width: it throws, or it yields
\* an alignment with some scaled score.
BandOutcomes ==
    {[failed |-> TRUE, scaledScore |-> 0]}
        \cup {[failed |-> FALSE, scaledScore |-> sc] : sc \in LineScores}

ReadLengths == {5, 100}
TrimmedRefLengths == {8, 200}
Verbosities == {0, 2, 3, 4}

\* A null SemiGlobalAlignment pointer.
NullAlignment == [null |-> TRUE]

Min(a, b) == IF a < b THEN a ELSE b

\* A clamp that looks at the read's length only.
ClampToRead(band, readLen, refLen) ==
    IF band > readLen THEN readLen ELSE band

\* lines 313-315: the band is clamped to the shorter sequence.
ClampBand(band, readLen, refLen) ==
    IF band > Min(readLen, refLen) THEN Min(readLen, refLen) ELSE band

\* A band attempt that writes nothing when the primitive fails.
BandOutputSilentFailure(verbosity, failed, band) ==
    IF failed THEN <<>>
    ELSE (IF verbosity > 2 THEN <<[kind |-> "summary", bandSize |-> band]>> ELSE <<>>)
         \o (IF verbosity > 3 THEN <<[kind |-> "cigar", bandSize |-> band]>> ELSE <<>>)

\* lines 327-342: the text appended to output by one attempt.
BandOutput(verbosity, failed, band) ==
    IF failed
    THEN IF verbosity > 2 THEN <<[kind |-> "failed", bandSize |-> band]>> ELSE <<>>
    ELSE (IF verbosity > 2 THEN <<[kind |-> "summary", bandSize |-> band]>> ELSE <<>>)
         \o (IF verbosity > 3 THEN <<[kind |-> "cigar", bandSize |-> band]>> ELSE <<>>)

\* A catch block that leaves the pointer set on a failure.
OneBandResultNotNulled(outcome, band) ==
    [null |-> FALSE, scaledScore |-> outcome.scaledScore, bandSize |-> band]

\* lines 327-344: the pointer returned by one attempt.
OneBandResult(outcome, band) ==
    IF outcome.failed THEN NullAlignment
    ELSE [null |-> FALSE, scaledScore |-> outcome.scaledScore, bandSize |-> band]

\* line 276: alignmentScore <= bestAlignmentScore
NotImproving(alignmentScore, best) == alignmentScore <= best

\* A width that grows by the starting width instead of doubling.
WidenedBand(band) == band + STARTING_BAND_SIZE

\* line 287
DoubledBand(band) == band * 2

\* line 288
PastCeiling(band) == band > MAX_BAND_SIZE

\* lines 256-267
LineInit ==
    /\ readLength \in ReadLengths
    /\ trimmedRefLength \in TrimmedRefLengths
    /\ lineVerbosity \in Verbosities
    /\ bandSize = STARTING_BAND_SIZE
    /\ bestAlignment = NullAlignment
    /\ bestAlignmentScore = DBL_MIN
    /\ attempts = <<>>
    /\ lineOutput = <<>>
    /\ linePc = "loop"

\* lines 271-290: one pass of while (true), the call of
\* semiGlobalAlignmentOneLineOneBand (lines 304-345) included.
OneBandAttempt ==
    /\ linePc = "loop"
    /\ \E outcome \in BandOutcomes :
        LET band      == ClampBand(bandSize, readLength, trimmedRefLength)
            alignment == OneBandResult(outcome, band)
            stop      == /\ ~alignment.null
                         /\ NotImproving(alignment.scaledScore, bestAlignmentScore)
        IN  /\ attempts' = Append(attempts,
                                  [requested   |-> bandSize,
                                   passed      |-> band,
                                   failed      |-> outcome.failed,
                                   scaledScore |-> outcome.scaledScore])
            /\ lineOutput' = lineOutput \o BandOutput(lineVerbosity, outcome.failed, band)
            /\ IF stop
               THEN /\ linePc' = "finish"
                    /\ UNCHANGED <<bandSize, bestAlignment, bestAlignmentScore>>
               ELSE /\ bestAlignment' =
                         IF alignment.null THEN bestAlignment ELSE alignment
                    /\ bestAlignmentScore' =
                         IF alignment.null THEN bestAlignmentScore
                         ELSE alignment.scaledScore
                    /\ bandSize' = DoubledBand(bandSize)
                    /\ linePc' = IF PastCeiling(DoubledBand(bandSize))
                                 THEN "finish" ELSE "loop"
    /\ UNCHANGED <<readLength, trimmedRefLength, lineVerbosity, rcVars, mainVars, extVars>>

\* lines 292-294: return bestAlignment.
OneLineReturn ==
    /\ linePc = "finish"
    /\ linePc' = "returned"
    /\ UNCHANGED <<bandSize, bestAlignment, bestAlignmentScore, attempts, lineOutput,
                   readLength, trimmedRefLength, lineVerbosity, rcVars, mainVars, extVars>>

LineIdle ==
    /\ bandSize = 0
    /\ bestAlignment = NullAlignment
    /\ bestAlignmentScore = 0
    /\ attempts = <<>>
    /\ lineOutput = <<>>
    /\ readLength = 0
    /\ trimmedRefLength = 0
    /\ lineVerbosity = 0
    /\ linePc = "unused"

\* ------------------------------------------------------------------------
\* The shared index (KmerPositions). Its code is not among the sources; the
\* five operations are those of the specification's section 6: names of all
\* entries, length of, sequence of, insert and remove BY NAME.
\* ------------------------------------------------------------------------
RECURSIVE SetToSeq(_)
SetToSeq(S) ==
    IF S = {} THEN <<>>
    ELSE LET x == CHOOSE y \in S : TRUE IN <<x>> \o SetToSeq(S \ {x})

getAllNames(idx) == SetToSeq(DOMAIN idx)

addPositions(idx, name, seq) ==
    [n \in (DOMAIN idx) \cup {name} |-> IF n = name THEN seq ELSE idx[n]]

deletePositions(idx, name) ==
    [n \in (DOMAIN idx) \ {name} |-> idx[n]]

HasName(idx, name) == name \in DOMAIN idx

\* The length of an entry; -1 stands for whatever a missing name gives.
getLength(idx, name) == IF HasName(idx, name) THEN Len(idx[name]) ELSE -1

\* ------------------------------------------------------------------------
\* semiGlobalAlignmentAllRefs and semiGlobalAlignmentAllRefsOneLevel
\* ------------------------------------------------------------------------
\* The invocations, and the read name each is called with.
Procs == {1, 2}
QueryNames == <<"q1", "q2">>

\* The one invocation of the sequential specification.
SoloProcs == {1}

\* The references loaded into the index before any call.
ReferenceEntries == [n \in {"ref1"} |-> <<"A", "C", "G", "T">>]

\* The read sequences and the caller's lowScoreThreshold.
ReadSeqs == {<<"A", "C", "G">>}
LowScoreThresholds == {40, 80}

\* The caller's verbosity (at 2 the band attempts append nothing to output),
\* and the verbosity of the specification that follows the diagnostic text.
MainVerbosities == {2}
VerboseVerbosities == {3}

\* Most AlignmentLines findAlignmentLines returns for one CommonKmerSet.
MaxLines == 1

\* settings.h is not among the sources. The floor and the level profiles
\* follow the specification: the thresholds are fractions of the maximum
\* score (here in percent), and a higher level has lower thresholds, a larger
\* merge distance and smaller minimum length and point count.
MINIMUM_MAX_SCORE == 2

LEVEL_PROFILES ==
    <<[lowScoreThreshold |-> 40, highScoreThreshold |-> 80, mergeDistance |-> 100,
       minAlignmentLength |-> 30, minPointCount |-> 4],
      [lowScoreThreshold |-> 25, highScoreThreshold |-> 50, mergeDistance |-> 200,
       minAlignmentLength |-> 20, minPointCount |-> 3],
      [lowScoreThreshold |-> 10, highScoreThreshold |-> 30, mergeDistance |-> 300,
       minAlignmentLength |-> 10, minPointCount |-> 2]>>

\* The m_maxScore a CommonKmerSet may come out with: below, at and above the floor.
MaxScores == {1, 2, 3}

Max(a, b) == IF a > b THEN a ELSE b

\* lines 124-144: the settings chosen by the sensitivity level.
ProfileFor(sensitivityLevel) ==
    IF sensitivityLevel = 1 THEN LEVEL_PROFILES[1]
    ELSE IF sensitivityLevel = 2 THEN LEVEL_PROFILES[2]
    ELSE LEVEL_PROFILES[3]

\* lines 73, 81 and 89: the sensitivityLevel argument of the driver call made
\* in controller state LEVEL<stage>. All three calls pass the literal 1.
SensitivityLevelPassed(stage) == 1

\* lines 47 and 56: the set is deleted when its score is below the floor.
BelowFloor(maxScore) == maxScore < MINIMUM_MAX_SCORE

\* A candidate filter that never deletes.
KeepNothingOut(sets, cks) == [sets |-> Append(sets.sets, cks),
                              max  |-> Max(sets.max, cks.m_maxScore)]

\* lines 46-52 and 55-61: the new CommonKmerSet is deleted, or pushed back
\* and counted into maxScoreAllSets.
KeepOrDelete(sets, cks) ==
    IF BelowFloor(cks.m_maxScore) THEN sets
    ELSE [sets |-> Append(sets.sets, cks),
          max  |-> Max(sets.max, cks.m_maxScore)]

\* lines 46 and 55: new CommonKmerSet(readName, refName, readLength, refLength, ...)
CommonKmerSet(readName, refName, readLen, refLen, maxScore) ==
    [m_readName |-> readName, m_refName |-> refName,
     readLength |-> readLen, refLength |-> refLen, m_maxScore |-> maxScore]

\* The permutations of 1..n.
Perms(n) == {f \in [1..n -> 1..n] : \A a, b \in 1..n : a # b => f[a] # f[b]}

IsSortedDesc(s) == \A a \in 1..(Len(s) - 1) : s[a].m_maxScore >= s[a + 1].m_maxScore

\* lines 65-67: std::sort by descending m_maxScore. std::sort is not stable:
\* sets with equal scores may come out in any order.
SortedOrders(s) ==
    {t \in {[a \in 1..Len(s) |-> s[f[a]]] : f \in Perms(Len(s))} : IsSortedDesc(t)}

\* One order std::sort may produce: insertion of each set behind the sets that
\* are not smaller (the order a stable sort gives).
RECURSIVE StableSorted(_)
StableSorted(s) ==
    IF s = <<>> THEN <<>>
    ELSE LET rest == StableSorted(SubSeq(s, 1, Len(s) - 1))
             x    == s[Len(s)]
             keep == SelectSeq(rest, LAMBDA y : y.m_maxScore >= x.m_maxScore)
             tail == SelectSeq(rest, LAMBDA y : y.m_maxScore < x.m_maxScore)
         IN  keep \o <<x>> \o tail

StableOrder(s) == {StableSorted(s)}

\* needsMoreSensitiveAlignment and readHasUnalignedParts are not among the
\* sources. After the specification's section 4.2: the read is adequately
\* covered when an alignment scoring at least the threshold spans it; it has
\* unaligned parts when no alignment at all spans it. An alignment of the
\* model spans the whole read (full) or only a part of it.
needsMoreSensitiveAlignment(alignments, lowScoreThreshold) ==
    ~\E a \in 1..Len(alignments) :
        alignments[a].full /\ alignments[a].scaledScore >= lowScoreThreshold

readHasUnalignedParts(alignments) ==
    ~\E a \in 1..Len(alignments) : alignments[a].full

\* An escalation test that always escalates.
AlwaysEscalate(c) == TRUE

\* line 77
Level2Needed(c) == needsMoreSensitiveAlignment(c.alignments, c.lowScoreThreshold)

\* line 85
Level3Needed(c) == readHasUnalignedParts(c.alignments)

\* An insertion that replaces the earlier results.
ReplaceBy(alignments, levelAlignments) == levelAlignments

\* lines 82 and 90: alignments.insert(alignments.end(), ...)
InsertAtEnd(alignments, levelAlignments) == alignments \o levelAlignments

\* line 95: the name handed to deletePositions.
CleanUpName(c) == c.readName

\* line 103: the ";" that follows an alignment's full string.
Delimiter == [delimiter |-> ";"]

\* A join that puts the delimiter between the descriptions only.
RECURSIVE JoinedBetween(_)
JoinedBetween(alignments) ==
    IF alignments = <<>> THEN <<>>
    ELSE IF Len(alignments) = 1 THEN <<[fullString |-> Head(alignments)]>>
    ELSE <<[fullString |-> Head(alignments)], Delimiter>>
             \o JoinedBetween(Tail(alignments))

\* lines 101-106: each alignment's full string and a ";", then the output.
RECURSIVE Serialized(_)
Serialized(alignments) ==
    IF alignments = <<>> THEN <<>>
    ELSE <<[fullString |-> Head(alignments)], Delimiter>>
             \o Serialized(Tail(alignments))

ReturnString(c) == Serialized(c.alignments) \o c.output

\* What one pass of the loop over alignmentLines (line 180) may meet:
\* buildSeedChain fails; it succeeds and semiGlobalAlignmentOneLine returns
\* null; or an alignment comes back, spanning the read with a high or a low
\* scaled score, or spanning part of it.
NoOutcome == [seedChainSuccess |-> FALSE, aligned |-> FALSE, full |-> FALSE, scaledScore |-> 0]
NullOutcome == [seedChainSuccess |-> TRUE, aligned |-> FALSE, full |-> FALSE, scaledScore |-> 0]

LineOutcomes ==
    {NoOutcome, NullOutcome,
     [seedChainSuccess |-> TRUE, aligned |-> TRUE, full |-> TRUE, scaledScore |-> 90],
     [seedChainSuccess |-> TRUE, aligned |-> TRUE, full |-> TRUE, scaledScore |-> 50],
     [seedChainSuccess |-> TRUE, aligned |-> TRUE, full |-> FALSE, scaledScore |-> 50]}

\* The outcomes and scores the specification of the diagnostic text draws
\* from: every seed chain is built, and a set scores below or above the floor.
VerboseScores == {1, 3}
VerboseOutcomes ==
    {NullOutcome,
     [seedChainSuccess |-> TRUE, aligned |-> TRUE, full |-> TRUE, scaledScore |-> 90],
     [seedChainSuccess |-> TRUE, aligned |-> TRUE, full |-> FALSE, scaledScore |-> 50]}

\* The outcomes and scores the interleaved specification draws from.
ConcOutcomes == {NoOutcome}
ConcScores == {3}

\* lines 181 and 183: the element of alignmentLines used in pass j of the loop
\* over the lines of the set at index i. The code indexes with i, not j.
LineIndex(i, j) == i

\* The locals of an invocation that has not begun.
IdleCall ==
    [pc |-> "idle", readName |-> "", posReadName |-> "", negReadName |-> "",
     posReadSeq |-> <<>>, negReadSeq |-> <<>>, readLength |-> 0,
     verbosity |-> 0, lowScoreThreshold |-> 0,
     referenceNames |-> <<>>, i |-> 0,
     commonKmerSets |-> <<>>, maxScoreAllSets |-> 0,
     alignments |-> <<>>, output |-> <<>>,
     stage |-> 0, sensitivityLevel |-> 0, levelAlignments |-> <<>>,
     runs |-> <<>>, lineFinderCalls |-> <<>>, missingLookups |-> {},
     cleanUps |-> 0, returnString |-> <<>>]

MainInit ==
    /\ index = ReferenceEntries
    /\ call = [p \in Procs |-> IdleCall]

MainIdle ==
    /\ index = <<>>
    /\ call = <<>>

\* The names the one loaded reference may have: a name of its own, the name
\* of the read, and the names the read's two strands are registered under.
ReferenceNameChoices == {"ref1", "q1", "q1+", "q1-"}

\* The index with one reference of the given name loaded.
LoadedReference(name) == [n \in {name} |-> ReferenceEntries["ref1"]]

NamesInit ==
    /\ index \in {LoadedReference(name) : name \in ReferenceNameChoices}
    /\ call = [p \in Procs |-> IdleCall]

\* lines 19-31: the names, the two strands and the snapshot of the index's names.
\* In the sequential specification no other invocation has begun.
BeginCall(p, sequential, Verbs) ==
    /\ call[p].pc = "idle"
    /\ sequential => \A q \in Procs : call[q].pc = "idle"
    /\ \E seq \in ReadSeqs, thr \in LowScoreThresholds, verb \in Verbs :
        call' = [call EXCEPT ![p] =
                    [@ EXCEPT !.pc = "addPos",
                              !.readName = QueryNames[p],
                              !.posReadName = QueryNames[p] \o "+",
                              !.negReadName = QueryNames[p] \o "-",
                              !.posReadSeq = seq,
                              !.negReadSeq = getReverseComplement(seq),
                              !.readLength = Len(seq),
                              !.verbosity = verb,
                              !.lowScoreThreshold = thr,
                              !.referenceNames = getAllNames(index)]]
    /\ UNCHANGED <<index, rcVars, lineVars, extVars>>

\* line 34
AddForward(p) ==
    /\ call[p].pc = "addPos"
    /\ index' = addPositions(index, call[p].posReadName, call[p].posReadSeq)
    /\ call' = [call EXCEPT ![p].pc = "addNeg"]
    /\ UNCHANGED <<rcVars, lineVars, extVars>>

\* line 35
AddReverse(p) ==
    /\ call[p].pc = "addNeg"
    /\ index' = addPositions(index, call[p].negReadName, call[p].negReadSeq)
    /\ call' = [call EXCEPT ![p].pc = "sets", ![p].i = 1]
    /\ UNCHANGED <<rcVars, lineVars, extVars>>

\* lines 41-62: one pass of the loop over referenceNames, both strands.
BuildSets(p, Scores) ==
    LET c == call[p] IN
    /\ c.pc = "sets"
    /\ c.i <= Len(c.referenceNames)
    /\ \E posScore \in Scores, negScore \in Scores :
        LET refName   == c.referenceNames[c.i]
            refLength == getLength(index, refName)
            posSet    == CommonKmerSet(c.posReadName, refName, c.readLength,
                                       refLength, posScore)
            negSet    == CommonKmerSet(c.negReadName, refName, c.readLength,
                                       refLength, negScore)
            before    == [sets |-> c.commonKmerSets, max |-> c.maxScoreAllSets]
            after     == KeepOrDelete(KeepOrDelete(before, posSet), negSet)
        IN  call' = [call EXCEPT ![p] =
                        [@ EXCEPT !.commonKmerSets = after.sets,
                                  !.maxScoreAllSets = after.max,
                                  !.missingLookups =
                                      IF HasName(index, refName) THEN @
                                      ELSE @ \cup {refName},
                                  !.i = @ + 1]]
    /\ UNCHANGED <<index, rcVars, lineVars, extVars>>

\* lines 65-73: the sort, and the entry into the driver at level 1. With
\* "stable" the sort is held to the one order a stable sort gives.
SortSets(p, stable) ==
    LET c == call[p] IN
    /\ c.pc = "sets"
    /\ c.i > Len(c.referenceNames)
    /\ \E sorted \in (IF stable THEN StableOrder(c.commonKmerSets)
                                ELSE SortedOrders(c.commonKmerSets)) :
        call' = [call EXCEPT ![p] =
                    [@ EXCEPT !.commonKmerSets = sorted,
                              !.pc = "level",
                              !.stage = 1,
                              !.sensitivityLevel = SensitivityLevelPassed(1),
                              !.i = 1,
                              !.levelAlignments = <<>>]]
    /\ UNCHANGED <<index, rcVars, lineVars, extVars>>

\* lines 148-149: the level's thresholds turned into absolute values (the
\* fractions being in percent, the values are in hundredths of a score).
AbsoluteThresholds(profile, maxScoreAllSets) ==
    [lowScoreThreshold  |-> profile.lowScoreThreshold * maxScoreAllSets,
     highScoreThreshold |-> profile.highScoreThreshold * maxScoreAllSets]

\* line 160: the set's score is below the level's absolute high threshold
\* (highScoreThreshold * maxScoreAllSets, the fraction being in percent).
BelowHighThreshold(maxScore, profile, maxScoreAllSets) ==
    maxScore * 100 < AbsoluteThresholds(profile, maxScoreAllSets).highScoreThreshold

\* lines 180-188: the alignments pushed back by the passes over the n lines of
\* the set at index i, outs[j] being what pass j meets. A line index outside
\* 0..n-1 reads past the vector; -1 marks the line such a read yields.
LineAlignments(cks, i, n, outs) ==
    LET made == SelectSeq([j \in 1..n |->
                              [readName    |-> cks.m_readName,
                               refName     |-> cks.m_refName,
                               line        |-> IF LineIndex(i, j - 1) < n
                                               THEN LineIndex(i, j - 1) ELSE -1,
                               aligned     |-> outs[j].aligned,
                               full        |-> outs[j].full,
                               scaledScore |-> outs[j].scaledScore]],
                          LAMBDA a : a.aligned)
    IN  [j \in 1..Len(made) |->
            [readName |-> made[j].readName, refName |-> made[j].refName,
             line |-> made[j].line, full |-> made[j].full,
             scaledScore |-> made[j].scaledScore]]

\* The text the band attempts of the passes append to output (verbosity > 2):
\* one entry per call of semiGlobalAlignmentOneLine.
LineOutputs(cks, i, n, outs, verbosity) ==
    LET called == SelectSeq([j \in 1..n |-> [pass |-> j, ok |-> outs[j].seedChainSuccess]],
                            LAMBDA a : a.ok)
    IN  IF verbosity > 2
        THEN [j \in 1..Len(called) |->
                 [kind |-> "bands", readName |-> cks.m_readName,
                  refName |-> cks.m_refName]]
        ELSE <<>>

\* lines 155-193: one pass of the loop over commonKmerSets in the driver.
\* Reading alignmentLines at an index outside 0..n-1 is undefined: the call
\* may crash, or go on with whatever the read yields.
DriverStep(p, Counts, Outcomes) ==
    LET c       == call[p]
        cks     == c.commonKmerSets[c.i]
        profile == ProfileFor(c.sensitivityLevel)
    IN
    /\ c.pc = "level"
    /\ c.i <= Len(c.commonKmerSets)
    /\ IF BelowHighThreshold(cks.m_maxScore, profile, c.maxScoreAllSets)
       THEN call' = [call EXCEPT ![p].i = @ + 1]
       ELSE \E n \in Counts :
            \E outs \in [1..n -> Outcomes] :
            \E crash \in BOOLEAN :
               LET outside == \E j \in 1..n : LineIndex(c.i - 1, j - 1) >= n
                   missing == {nm \in {cks.m_readName, cks.m_refName} :
                                  ~HasName(index, nm)}
                   found   == [stage |-> c.stage, set |-> c.i,
                               readName |-> cks.m_readName,
                               refName |-> cks.m_refName,
                               maxScore |-> cks.m_maxScore]
               IN  /\ crash => outside
                   /\ call' = [call EXCEPT ![p] =
                        IF crash
                        THEN [@ EXCEPT !.pc = "crashed",
                                       !.missingLookups = @ \cup missing,
                                       !.lineFinderCalls = Append(@, found)]
                        ELSE [@ EXCEPT !.i = @ + 1,
                                       !.missingLookups = @ \cup missing,
                                       !.lineFinderCalls = Append(@, found),
                                       !.levelAlignments =
                                           @ \o LineAlignments(cks, c.i - 1, n, outs),
                                       !.output =
                                           @ \o LineOutputs(cks, c.i - 1, n, outs,
                                                            c.verbosity)]]
    /\ UNCHANGED <<index, rcVars, lineVars, extVars>>

\* line 195 and lines 70, 82, 90: the driver returns and the caller takes the
\* alignments of the level.
DriverReturn(p) ==
    LET c == call[p] IN
    /\ c.pc = "level"
    /\ c.i > Len(c.commonKmerSets)
    /\ call' = [call EXCEPT ![p] =
                  [@ EXCEPT !.pc = "check",
                            !.runs = Append(@, [stage            |-> c.stage,
                                                sensitivityLevel |-> c.sensitivityLevel,
                                                profile          |-> ProfileFor(c.sensitivityLevel),
                                                maxScoreAllSets  |-> c.maxScoreAllSets,
                                                thresholds       |->
                                                    AbsoluteThresholds(
                                                        ProfileFor(c.sensitivityLevel),
                                                        c.maxScoreAllSets),
                                                result           |-> c.levelAlignments]),
                            !.alignments = IF c.stage = 1 THEN c.levelAlignments
                                           ELSE InsertAtEnd(@, c.levelAlignments)]]
    /\ UNCHANGED <<index, rcVars, lineVars, extVars>>

\* lines 77-92: the tests that lead to the next level, or to the clean-up.
Escalate(p) ==
    LET c  == call[p]
        go == \/ c.stage = 1 /\ Level2Needed(c)
              \/ c.stage = 2 /\ Level3Needed(c)
    IN
    /\ c.pc = "check"
    /\ call' = [call EXCEPT ![p] =
                  IF go
                  THEN [@ EXCEPT !.pc = "level",
                                 !.stage = c.stage + 1,
                                 !.sensitivityLevel = SensitivityLevelPassed(c.stage + 1),
                                 !.i = 1,
                                 !.levelAlignments = <<>>]
                  ELSE [@ EXCEPT !.pc = "cleanUp"]]
    /\ UNCHANGED <<index, rcVars, lineVars, extVars>>

\* lines 94-97
CleanUp(p) ==
    /\ call[p].pc = "cleanUp"
    /\ index' = deletePositions(index, CleanUpName(call[p]))
    /\ call' = [call EXCEPT ![p].pc = "serialize", ![p].cleanUps = @ + 1]
    /\ UNCHANGED <<rcVars, lineVars, extVars>>

\* A collaborator throws after the two insertions: the CommonKmerSet
\* constructor (lines 46, 55), findAlignmentLines (line 170), buildSeedChain
\* (line 181) or refSeq->substr (line 259, std::out_of_range). Neither
\* semiGlobalAlignmentAllRefs nor the driver has a try block, so the exception
\* leaves semiGlobalAlignmentAllRefs from where it was thrown.
CollaboratorThrows(p) ==
    LET c == call[p] IN
    /\ \/ c.pc = "sets" /\ c.i <= Len(c.referenceNames)
       \/ /\ c.pc = "level"
          /\ c.i <= Len(c.commonKmerSets)
          /\ ~BelowHighThreshold(c.commonKmerSets[c.i].m_maxScore,
                                 ProfileFor(c.sensitivityLevel), c.maxScoreAllSets)
    /\ call' = [call EXCEPT ![p].pc = "failed"]
    /\ UNCHANGED <<index, rcVars, lineVars, extVars>>

\* lines 99-107
ReturnBuffer(p) ==
    /\ call[p].pc = "serialize"
    /\ call' = [call EXCEPT ![p].pc = "returned",
                            ![p].returnString = ReturnString(call[p])]
    /\ UNCHANGED <<index, rcVars, lineVars, extVars>>

\* ------------------------------------------------------------------------
\* startExtensionAlignment and endExtensionAlignment (lines 352-400)
\* ------------------------------------------------------------------------
\* Longest read and longest reference fragment handed to an extension.
MaxExtLen == 2

ExtLetters == {"A", "C"}

ExtStrings == UNION {[1..n -> ExtLetters] : n \in 1..MaxExtLen}

\* The score arguments: linear gap costs, and affine ones.
ExtScorings ==
    {[matchScore |-> 1, mismatchScore |-> -1, gapOpenScore |-> -1, gapExtensionScore |-> -1],
     [matchScore |-> 1, mismatchScore |-> -1, gapOpenScore |-> -2, gapExtensionScore |-> -1]}

\* A score below every score an alignment of the fragments can have.
NoAlignmentScore == -1000

\* AlignConfig<TTop, TLeft, TRight, TBottom>. Row 0 of the Align object (the
\* read, sequenceH) is the horizontal sequence of the DP matrix and row 1 (the
\* reference, sequenceV) the vertical one: a free top row frees the skipping
\* of a prefix of the read, a free left column the skipping of a prefix of
\* the reference, a free right column the skipping of a suffix of the
\* reference, and a free bottom row the skipping of a suffix of the read.
AlignConfig(top, left, right, bottom) ==
    [top |-> top, left |-> left, right |-> right, bottom |-> bottom]

\* A configuration with the one free end in the wrong template position.
TopFreeConfig == AlignConfig(TRUE, FALSE, FALSE, FALSE)

\* line 368
StartAlignConfig == AlignConfig(FALSE, TRUE, FALSE, FALSE)

\* line 395
EndAlignConfig == AlignConfig(FALSE, FALSE, TRUE, FALSE)

\* A configuration with no free end.
NoFreeEnds == AlignConfig(FALSE, FALSE, FALSE, FALSE)

\* Score<int, Simple>: a gap of n columns costs gapOpen + (n - 1) * gapExtend.
GapCost(sc, n) == sc.gapOpenScore + (n - 1) * sc.gapExtensionScore

MaxOfSet(S) == CHOOSE x \in S : \A y \in S : y <= x

\* globalAlignment (lines 369 and 396): the best score of an alignment of
\* h[1..i] with v[1..j] whose last column is a pair ("M"), a letter of h over
\* a gap ("H") or a gap over a letter of v ("V"), with the leading gaps the
\* configuration frees costing nothing.
RECURSIVE Cell(_, _, _, _, _, _, _)
Cell(h, v, sc, cfg, i, j, last) ==
    LET Best(a, b) == MaxOfSet({Cell(h, v, sc, cfg, a, b, l) : l \in {"M", "H", "V"}})
    IN  IF i = 0 /\ j = 0 THEN (IF last = "M" THEN 0 ELSE NoAlignmentScore)
        ELSE IF j = 0
             THEN IF last = "H" THEN (IF cfg.top THEN 0 ELSE GapCost(sc, i))
                  ELSE NoAlignmentScore
        ELSE IF i = 0
             THEN IF last = "V" THEN (IF cfg.left THEN 0 ELSE GapCost(sc, j))
                  ELSE NoAlignmentScore
        ELSE IF last = "M"
             THEN Best(i - 1, j - 1)
                      + (IF h[i] = v[j] THEN sc.matchScore ELSE sc.mismatchScore)
        ELSE IF last = "H"
             THEN Max(Cell(h, v, sc, cfg, i - 1, j, "H") + sc.gapExtensionScore,
                      Max(Cell(h, v, sc, cfg, i - 1, j, "M"),
                          Cell(h, v, sc, cfg, i - 1, j, "V")) + sc.gapOpenScore)
        ELSE Max(Cell(h, v, sc, cfg, i, j - 1, "V") + sc.gapExtensionScore,
                 Max(Cell(h, v, sc, cfg, i, j - 1, "M"),
                     Cell(h, v, sc, cfg, i, j - 1, "H")) + sc.gapOpenScore)

\* The score globalAlignment reports: the last cell, or the best cell of the
\* last column or of the last row when the configuration frees that end.
globalAlignment(h, v, sc, cfg) ==
    LET Best(a, b) == MaxOfSet({Cell(h, v, sc, cfg, a, b, l) : l \in {"M", "H", "V"}})
    IN  MaxOfSet({Best(Len(h), Len(v))}
                 \cup (IF cfg.right THEN {Best(Len(h), b) : b \in 0..Len(v)} ELSE {})
                 \cup (IF cfg.bottom THEN {Best(a, Len(v)) : a \in 0..Len(h)} ELSE {}))

ExtInit ==
    /\ extRead \in ExtStrings
    /\ extRef \in ExtStrings
    /\ extScoring \in ExtScorings
    /\ extAlignment = NullAlignment
    /\ extReturn = <<>>
    /\ extPc = "init"

ExtIdle ==
    /\ extRead = <<>>
    /\ extRef = <<>>
    /\ extScoring = <<>>
    /\ extAlignment = NullAlignment
    /\ extReturn = <<>>
    /\ extPc = "unused"

\* lines 369-371 and 396-398: the one SemiGlobalAlignment made from the
\* global alignment of the two fragments under the configuration.
ExtensionResult(h, v, sc, cfg) ==
    [null |-> FALSE, alignConfig |-> cfg, score |-> globalAlignment(h, v, sc, cfg)]

\* lines 352-373
startExtensionAlignment ==
    /\ extPc = "init"
    /\ extAlignment' = ExtensionResult(extRead, extRef, extScoring, StartAlignConfig)
    /\ extReturn' = <<[fullString |-> extAlignment']>>
    /\ extPc' = "start"
    /\ UNCHANGED <<extRead, extRef, extScoring, rcVars, lineVars, mainVars>>

\* lines 379-400
endExtensionAlignment ==
    /\ extPc = "init"
    /\ extAlignment' = ExtensionResult(extRead, extRef, extScoring, EndAlignConfig)
    /\ extReturn' = <<[fullString |-> extAlignment']>>
    /\ extPc' = "end"
    /\ UNCHANGED <<extRead, extRef, extScoring, rcVars, lineVars, mainVars>>

\* ------------------------------------------------------------------------
\* Specifications
\* ------------------------------------------------------------------------
InitRC == RCInit /\ LineIdle /\ MainIdle /\ ExtIdle

NextRC == ReverseOnce \/ ReverseAgain

SpecRC == InitRC /\ [][NextRC]_vars

InitLine == LineInit /\ RCIdle /\ MainIdle /\ ExtIdle

NextLine == OneBandAttempt \/ OneLineReturn

SpecLine == InitLine /\ [][NextLine]_vars

\* semiGlobalAlignmentOneLine is sequential code with no suspension point:
\* a step that can be taken is taken.
SpecLineFair == SpecLine /\ WF_vars(OneBandAttempt) /\ WF_vars(OneLineReturn)

Init == MainInit /\ RCIdle /\ LineIdle /\ ExtIdle

\* One invocation of semiGlobalAlignmentAllRefs.
Next ==
    \E p \in SoloProcs :
        \/ BeginCall(p, TRUE, MainVerbosities)
        \/ AddForward(p)
        \/ AddReverse(p)
        \/ BuildSets(p, MaxScores)
        \/ SortSets(p, FALSE)
        \/ DriverStep(p, 0..MaxLines, LineOutcomes)
        \/ DriverReturn(p)
        \/ Escalate(p)
        \/ CleanUp(p)
        \/ ReturnBuffer(p)

Spec == Init /\ [][Next]_vars

\* Interleaved invocations with different read names on the same index. The
\* collaborators are held to one behaviour each: every set scores above the
\* floor, every set has one line and no seed chain can be built.
NextConc ==
    \E p \in Procs :
        \/ BeginCall(p, FALSE, MainVerbosities)
        \/ AddForward(p)
        \/ AddReverse(p)
        \/ BuildSets(p, ConcScores)
        \/ SortSets(p, TRUE)
        \/ DriverStep(p, {1}, ConcOutcomes)
        \/ DriverReturn(p)
        \/ Escalate(p)
        \/ CleanUp(p)
        \/ ReturnBuffer(p)

SpecConc == Init /\ [][NextConc]_vars

\* One invocation in which a collaborator may throw.
NextFail ==
    \E p \in SoloProcs :
        \/ BeginCall(p, TRUE, MainVerbosities)
        \/ AddForward(p)
        \/ AddReverse(p)
        \/ BuildSets(p, MaxScores)
        \/ SortSets(p, FALSE)
        \/ DriverStep(p, 0..MaxLines, LineOutcomes)
        \/ DriverReturn(p)
        \/ Escalate(p)
        \/ CleanUp(p)
        \/ ReturnBuffer(p)
        \/ CollaboratorThrows(p)

SpecFail == Init /\ [][NextFail]_vars

\* One invocation at a verbosity at which the band attempts write to output.
NextVerbose ==
    \E p \in SoloProcs :
        \/ BeginCall(p, TRUE, VerboseVerbosities)
        \/ AddForward(p)
        \/ AddReverse(p)
        \/ BuildSets(p, VerboseScores)
        \/ SortSets(p, FALSE)
        \/ DriverStep(p, 0..MaxLines, VerboseOutcomes)
        \/ DriverReturn(p)
        \/ Escalate(p)
        \/ CleanUp(p)
        \/ ReturnBuffer(p)

SpecVerbose == Init /\ [][NextVerbose]_vars

\* One invocation on an index whose reference may share a name with the read
\* or with one of its strand entries.
InitNames == NamesInit /\ RCIdle /\ LineIdle /\ ExtIdle

SpecNames == InitNames /\ [][Next]_vars

InitExt == ExtInit /\ RCIdle /\ LineIdle /\ MainIdle

NextExt == startExtensionAlignment \/ endExtensionAlignment

SpecExt == InitExt /\ [][NextExt]_vars

\* ------------------------------------------------------------------------
\* Claims about getReverseComplement (checked under SpecRC)
\* ------------------------------------------------------------------------
AllInTable(s) == \A i \in 1..Len(s) : s[i] \in TableLetters

\* C7: reverse complement is an involution on strings over the letters of the
\* complement table (IUPAC codes and the placeholders . - ? *): applying
\* getReverseComplement to its own result gives the original string back.
C7_Involution ==
    (rcPc = "twice" /\ AllInTable(sequence)) => reverseTwice = sequence

\* A three-letter string with a plain base, an ambiguity code and a placeholder
\* has been reversed twice.
C7_Witness ==
    /\ rcPc = "twice"
    /\ sequence = <<"A", "K", "*">>
    /\ reverseComplement = <<"*", "M", "T">>
    /\ reverseTwice = <<"A", "K", "*">>

\* C8: getReverseComplement passes unrecognized symbols through: the result is
\* as long as the argument, and a letter of the argument that is not in the
\* table stands unchanged at the mirrored position of the result.
C8_PassThrough ==
    rcPc # "init" =>
        /\ Len(reverseComplement) = Len(sequence)
        /\ \A i \in 1..Len(sequence) :
              sequence[i] \notin TableLetters =>
                  reverseComplement[Len(sequence) - i + 1] = sequence[i]

\* ------------------------------------------------------------------------
\* Claims about semiGlobalAlignmentOneLine (checked under SpecLine)
\* ------------------------------------------------------------------------
Attempted == 1..Len(attempts)

HasResult(k) == ~attempts[k].failed

\* Attempt k produced a result that is no better than the result of an
\* earlier attempt.
NonImprovingAttempt(k) ==
    /\ HasResult(k)
    /\ \E j \in 1..(k - 1) :
          HasResult(j) /\ attempts[k].scaledScore <= attempts[j].scaledScore

\* The width after attempt k would exceed the ceiling.
AtCeiling(k) == 2 * attempts[k].requested > MAX_BAND_SIZE

StopsAt(k) == NonImprovingAttempt(k) \/ AtCeiling(k)

\* C5: the requested band widths start at STARTING_BAND_SIZE, double from one
\* attempt to the next and never exceed MAX_BAND_SIZE; the refinement goes on
\* exactly until the first attempt whose result does not improve on the best
\* score of the attempts before it, or whose width is the last below the
\* ceiling.
C5_DoublingAndStop ==
    /\ \A k \in Attempted :
          /\ attempts[k].requested <= MAX_BAND_SIZE
          /\ attempts[k].requested =
                IF k = 1 THEN STARTING_BAND_SIZE ELSE 2 * attempts[k - 1].requested
          /\ k < Len(attempts) => ~StopsAt(k)
    /\ (linePc = "loop" /\ attempts # <<>>) => ~StopsAt(Len(attempts))
    /\ linePc \in {"finish", "returned"} => StopsAt(Len(attempts))

\* The best scaled score among the attempts that produced a result.
IsBestAttemptScore(sc) ==
    /\ \E k \in Attempted : HasResult(k) /\ attempts[k].scaledScore = sc
    /\ \A k \in Attempted : HasResult(k) => attempts[k].scaledScore <= sc

\* C6: semiGlobalAlignmentOneLine returns the result with the highest scaled
\* score among its attempts, and returns null only when every attempt failed.
C6_ReturnsBest ==
    linePc = "returned" =>
        IF \E k \in Attempted : HasResult(k)
        THEN /\ ~bestAlignment.null
             /\ IsBestAttemptScore(bestAlignment.scaledScore)
        ELSE bestAlignment.null

\* The lines of lineOutput that are summary lines (of a successful or of a
\* failed attempt), and those that are positional descriptions.
SummaryLines == SelectSeq(lineOutput, LAMBDA l : l.kind \in {"summary", "failed"})
CigarLines == SelectSeq(lineOutput, LAMBDA l : l.kind = "cigar")

\* The attempts that produced a result, in order.
SuccessfulAttempts == SelectSeq(attempts, LAMBDA a : ~a.failed)

\* C14: verbosity gates the diagnostic text of the refinement loop. At
\* verbosity 2 or less no attempt appends anything; at verbosity 3 every
\* attempt, successful or failed, appends exactly one summary line and
\* nothing else; at verbosity 4 every attempt appends its summary line and
\* every successful attempt one more line with the positional description.
C14_VerbosityGates ==
    /\ lineVerbosity <= 2 => lineOutput = <<>>
    /\ lineVerbosity >= 3 =>
          /\ Len(SummaryLines) = Len(attempts)
          /\ \A k \in Attempted :
                SummaryLines[k].kind =
                    IF attempts[k].failed THEN "failed" ELSE "summary"
    /\ lineVerbosity = 3 => Len(lineOutput) = Len(attempts)
    /\ lineVerbosity = 4 =>
          /\ Len(CigarLines) = Len(SuccessfulAttempts)
          /\ Len(lineOutput) = Len(attempts) + Len(SuccessfulAttempts)
          /\ \A k \in 2..Len(lineOutput) :
                lineOutput[k].kind = "cigar" => lineOutput[k - 1].kind = "summary"

\* At verbosity 4 the refinement has returned after a failed and two
\* successful attempts.
C14_Witness ==
    /\ linePc = "returned"
    /\ lineVerbosity = 4
    /\ \E k \in Attempted : attempts[k].failed
    /\ Len(SuccessfulAttempts) >= 2
    /\ Len(CigarLines) >= 2

\* The step is a band attempt whose primitive failed.
FailedAttemptStep ==
    /\ Len(attempts') = Len(attempts) + 1
    /\ attempts'[Len(attempts')].failed

\* C17: a primitive failure at one band width is recovered inside the
\* refinement loop. The failed attempt leaves the best result and the best
\* score as they were and does not end the refinement by itself: the width is
\* doubled and the loop goes on with it unless it exceeds MAX_BAND_SIZE. The
\* failure does not leave semiGlobalAlignmentOneLine: control stays in the
\* loop or goes to the return of the best result.
C17_FailureRecovered ==
    [][FailedAttemptStep =>
          /\ bestAlignment' = bestAlignment
          /\ bestAlignmentScore' = bestAlignmentScore
          /\ bandSize' = 2 * bandSize
          /\ linePc' = IF 2 * bandSize > MAX_BAND_SIZE THEN "finish" ELSE "loop"]_vars

\* After a successful attempt, a failed one and a further attempt the
\* refinement has returned the result of an attempt made before the failure
\* or after it.
C17_Witness ==
    /\ linePc = "returned"
    /\ ~bestAlignment.null
    /\ \E k \in 2..(Len(attempts) - 1) :
          /\ attempts[k].failed
          /\ ~attempts[k - 1].failed
          /\ ~attempts[k + 1].failed

\* C20: the band width passed to the banded alignment primitive never
\* exceeds the read's length or the trimmed reference's length: a requested
\* width above the shorter of the two is passed as that length, a requested
\* width at or below it is passed unchanged, and the requested widths go on
\* doubling from STARTING_BAND_SIZE whatever was passed.
C20_BandClamped ==
    \A k \in Attempted :
        LET a == attempts[k] IN
        /\ a.passed <= readLength
        /\ a.passed <= trimmedRefLength
        /\ (a.requested <= readLength /\ a.requested <= trimmedRefLength)
              => a.passed = a.requested
        /\ (a.requested > readLength \/ a.requested > trimmedRefLength)
              => a.passed \in {readLength, trimmedRefLength}
        /\ a.requested =
              IF k = 1 THEN STARTING_BAND_SIZE ELSE 2 * attempts[k - 1].requested

\* A refinement on a read of 100 and a trimmed reference of 200 whose first
\* attempts went through unchanged and whose last was clamped from 160 to 100.
C20_Witness ==
    /\ readLength = 100
    /\ trimmedRefLength = 200
    /\ Len(attempts) = 5
    /\ attempts[4].requested = 80 /\ attempts[4].passed = 80
    /\ attempts[5].requested = 160 /\ attempts[5].passed = 100

\* The largest e with 2^e <= n, for n >= 1.
RECURSIVE FloorLog2(_)
FloorLog2(n) == IF n < 2 THEN 0 ELSE 1 + FloorLog2(n \div 2)

\* floor(log2(MAX_BAND_SIZE / STARTING_BAND_SIZE)) + 1
MostAttempts == FloorLog2(MAX_BAND_SIZE \div STARTING_BAND_SIZE) + 1

\* C21: the refinement loop always terminates, whatever the outcomes of the
\* band attempts (failures, improving and non-improving results in any mix):
\* it never makes more than floor(log2(MAX_BAND_SIZE / STARTING_BAND_SIZE)) + 1
\* attempts, and semiGlobalAlignmentOneLine eventually returns.
C21_Terminates ==
    /\ [](Len(attempts) <= MostAttempts)
    /\ <>(linePc = "returned")

\* The refinement has returned after the most attempts it can make, a failed
\* one, an improving one and a last one at the ceiling among them.
C21_Witness ==
    /\ linePc = "returned"
    /\ Len(attempts) = MostAttempts
    /\ attempts[Len(attempts)].requested = MAX_BAND_SIZE
    /\ \E k \in Attempted : attempts[k].failed
    /\ \E k \in 2..Len(attempts) :
          /\ HasResult(k) /\ HasResult(k - 1)
          /\ attempts[k].scaledScore > attempts[k - 1].scaledScore

\* ------------------------------------------------------------------------
\* Claims about the extension alignments (checked under SpecExt)
\* ------------------------------------------------------------------------
\* The ends a configuration leaves free.
FreeEnds(cfg) ==
    {e \in {"top", "left", "right", "bottom"} : cfg[e]}

\* The best score of a global alignment with every end gap penalized.
Penalized(h, v) == globalAlignment(h, v, extScoring, NoFreeEnds)

\* The suffixes and the prefixes of a fragment, the empty one included.
SuffixesOf(v) == {SubSeq(v, k + 1, Len(v)) : k \in 0..Len(v)}
PrefixesOf(v) == {SubSeq(v, 1, k) : k \in 0..Len(v)}

\* C15: the two extension operations use asymmetric free-end-gap
\* configurations. startExtensionAlignment frees exactly one end, the
\* beginning of the reference: its alignment scores as the best fully
\* penalized alignment of the whole read with a suffix of the reference.
\* endExtensionAlignment frees exactly one end, the end of the reference: its
\* alignment scores as the best fully penalized alignment of the whole read
\* with a prefix of the reference. Each returns one serialized alignment.
C15_AsymmetricFreeEnds ==
    /\ extPc = "start" =>
          /\ FreeEnds(extAlignment.alignConfig) = {"left"}
          /\ extAlignment.score =
                 MaxOfSet({Penalized(extRead, v) : v \in SuffixesOf(extRef)})
    /\ extPc = "end" =>
          /\ FreeEnds(extAlignment.alignConfig) = {"right"}
          /\ extAlignment.score =
                 MaxOfSet({Penalized(extRead, v) : v \in PrefixesOf(extRef)})
    /\ extPc \in {"start", "end"} =>
          /\ Len(extReturn) = 1
          /\ extReturn[1] = [fullString |-> extAlignment]

\* The read C has been extended at the start against the reference AC: the
\* reference's first letter is skipped for nothing, where a fully penalized
\* alignment of C with AC has to pay for it.
C15_Witness ==
    /\ extPc = "start"
    /\ extRead = <<"C">>
    /\ extRef = <<"A", "C">>
    /\ extAlignment.score = extScoring.matchScore
    /\ Penalized(extRead, extRef) < extAlignment.score

\* ------------------------------------------------------------------------
\* Claims about semiGlobalAlignmentAllRefs (checked under Spec, SpecConc,
\* SpecFail, SpecNames and SpecVerbose)
\* ------------------------------------------------------------------------
\* The controller has left the levels: clean-up, serialization or return.
Done(c) == c.pc \in {"cleanUp", "serialize", "returned"}

\* C1: after an invocation has returned, the index holds no entry named
\* <readName>+ and no entry named <readName>-.
C1_StrandEntriesRemoved ==
    \A p \in Procs :
        call[p].pc = "returned" =>
            /\ ~HasName(index, call[p].posReadName)
            /\ ~HasName(index, call[p].negReadName)

\* C2: the driver run made in controller state LEVEL<r> uses the profile of
\* level r: the first run level 1, the second level 2, the third level 3.
C2_OwnProfile ==
    \A p \in Procs :
        \A r \in 1..Len(call[p].runs) :
            /\ call[p].runs[r].stage = r
            /\ call[p].runs[r].sensitivityLevel = r
            /\ call[p].runs[r].profile = LEVEL_PROFILES[r]

\* The results of the driver runs made so far, in order.
RECURSIVE ResultsOf(_)
ResultsOf(runs) ==
    IF runs = <<>> THEN <<>>
    ELSE ResultsOf(SubSeq(runs, 1, Len(runs) - 1)) \o runs[Len(runs)].result

C4_OnlyAppends ==
    \A p \in Procs :
        LET c == call[p] IN
        /\ c.pc \in {"check", "cleanUp", "serialize", "returned"} =>
              c.alignments = ResultsOf(c.runs)
        /\ (c.pc = "level" /\ c.stage > 1) => c.alignments = ResultsOf(c.runs)
        /\ c.runs # <<>> =>
              SubSeq(c.alignments, 1, Len(c.runs[1].result)) = c.runs[1].result

\* An invocation has returned alignments of all three levels.
C4_Witness ==
    \E p \in Procs :
        /\ call[p].pc = "returned"
        /\ Len(call[p].runs) = 3
        /\ \A r \in 1..3 : call[p].runs[r].result # <<>>
        /\ Len(call[p].alignments) >= 3

\* The largest of a set of scores, 0 when there is none.
MaxOf(S) == IF S = {} THEN 0 ELSE CHOOSE x \in S : \A y \in S : y <= x

\* C9: no CommonKmerSet with m_maxScore below MINIMUM_MAX_SCORE is kept in
\* commonKmerSets or handed to findAlignmentLines, in any level and for either
\* strand, and maxScoreAllSets is the largest score of the sets kept.
C9_CandidateFloor ==
    \A p \in Procs :
        LET c == call[p] IN
        /\ \A k \in 1..Len(c.commonKmerSets) :
              c.commonKmerSets[k].m_maxScore >= MINIMUM_MAX_SCORE
        /\ \A k \in 1..Len(c.lineFinderCalls) :
              c.lineFinderCalls[k].maxScore >= MINIMUM_MAX_SCORE
        /\ c.maxScoreAllSets =
              MaxOf({c.commonKmerSets[k].m_maxScore : k \in 1..Len(c.commonKmerSets)})

\* Of the two sets built for the one reference, one was deleted and the other
\* went through line-finding.
C9_Witness ==
    \E p \in Procs :
        /\ call[p].pc = "returned"
        /\ Len(call[p].referenceNames) = 1
        /\ Len(call[p].commonKmerSets) = 1
        /\ call[p].lineFinderCalls # <<>>

\* The temporary entries of the invocations other than p.
OthersStrandNames(p) ==
    UNION {{QueryNames[q] \o "+", QueryNames[q] \o "-"} : q \in Procs \ {p}}

\* C10: interleaved invocations with different read names are independent: no
\* invocation builds a CommonKmerSet against, or runs line-finding on, the
\* strand entries of another invocation, and none looks up a name that is no
\* longer in the index.
C10_Independent ==
    \A p \in Procs :
        LET c == call[p] IN
        /\ \A k \in 1..Len(c.referenceNames) :
              c.referenceNames[k] \notin OthersStrandNames(p)
        /\ \A k \in 1..Len(c.commonKmerSets) :
              c.commonKmerSets[k].m_refName \notin OthersStrandNames(p)
        /\ \A k \in 1..Len(c.lineFinderCalls) :
              c.lineFinderCalls[k].refName \notin OthersStrandNames(p)
        /\ c.missingLookups = {}

\* C11: whichever way control leaves semiGlobalAlignmentAllRefs, by returning
\* the buffer or by a collaborator's failure after the two insertions, the
\* clean-up of the strand entries has run exactly once and neither entry is
\* left in the index.
C11_RemovedOnEveryExit ==
    \A p \in Procs :
        call[p].pc \in {"returned", "failed"} =>
            /\ call[p].cleanUps = 1
            /\ ~HasName(index, call[p].posReadName)
            /\ ~HasName(index, call[p].negReadName)

\* C12: an invocation leaves the reference entries as they were: every name
\* that was in the index before the call is still there after the return,
\* with the sequence it had, also when the read is named like a reference or
\* a reference is named like one of the read's strand entries.
C12_ReferencesUnchanged ==
    \A p \in SoloProcs :
        call[p].pc = "returned" =>
            \A k \in 1..Len(call[p].referenceNames) :
                /\ HasName(index, call[p].referenceNames[k])
                /\ index[call[p].referenceNames[k]] = ReferenceEntries["ref1"]

\* C13: the returned buffer is, for the accepted alignments of all executed
\* levels in accumulation order, the description of each followed by one
\* ";", and then the accumulated diagnostic text as the last segment: with no
\* alignment the buffer is the diagnostic text alone, and every accepted
\* alignment is serialized exactly once.
C13_ReturnedBuffer ==
    \A p \in SoloProcs :
        LET c        == call[p]
            accepted == ResultsOf(c.runs)
            n        == Len(accepted)
        IN  c.pc = "returned" =>
              /\ Len(c.returnString) = 2 * n + Len(c.output)
              /\ \A k \in 1..n :
                    /\ c.returnString[2 * k - 1] = [fullString |-> accepted[k]]
                    /\ c.returnString[2 * k] = [delimiter |-> ";"]
              /\ SubSeq(c.returnString, 2 * n + 1, Len(c.returnString)) = c.output
              /\ n = 0 => c.returnString = c.output
              /\ Cardinality({k \in 1..Len(c.returnString) :
                                 "fullString" \in DOMAIN c.returnString[k]}) = n

\* A buffer with the alignments of two levels and diagnostic text behind them
\* has been returned.
C13_Witness ==
    \E p \in SoloProcs :
        /\ call[p].pc = "returned"
        /\ Len(call[p].runs) >= 2
        /\ call[p].runs[1].result # <<>>
        /\ call[p].runs[2].result # <<>>
        /\ call[p].output # <<>>
        /\ Len(call[p].returnString) > Len(call[p].output)

\* C16: the driver never reads alignmentLines outside 0..k-1, and every
\* alignment it accumulates was refined along a line of the list the
\* line-finder returned for its candidate, whatever the candidate's position
\* in the candidate list.
C16_LinesOfTheList ==
    \A p \in Procs :
        LET c == call[p] IN
        /\ c.pc # "crashed"
        /\ \A k \in 1..Len(c.levelAlignments) :
              c.levelAlignments[k].line \in 0..(MaxLines - 1)
        /\ \A k \in 1..Len(c.alignments) :
              c.alignments[k].line \in 0..(MaxLines - 1)

\* The position in the sorted candidate list of the candidate an alignment
\* or a line-finder call belongs to.
PositionOf(c, readName, refName) ==
    CHOOSE k \in 1..Len(c.commonKmerSets) :
        /\ c.commonKmerSets[k].m_readName = readName
        /\ c.commonKmerSets[k].m_refName = refName

\* The line-finder calls made in the run of controller state LEVEL<r>.
CallsOfRun(c, r) == SelectSeq(c.lineFinderCalls, LAMBDA f : f.stage = r)

\* The candidate scores at or above level r's absolute high-score threshold.
QualifiesAt(c, k, r) ==
    c.commonKmerSets[k].m_maxScore * 100
        >= LEVEL_PROFILES[r].highScoreThreshold * c.maxScoreAllSets

\* C18: in each completed driver run the candidates go to the line-finder in
\* non-increasing maxScore order; the candidates that go are exactly those
\* whose maxScore is at least the level's absolute high-score threshold; and
\* the alignments of the run stand in the order of their candidates.
C18_OrderAndThreshold ==
    \A p \in SoloProcs :
        LET c == call[p] IN
        Done(c) =>
            \A r \in 1..Len(c.runs) :
                LET calls == CallsOfRun(c, r) IN
                /\ \A a \in 1..(Len(calls) - 1) :
                      /\ calls[a].set < calls[a + 1].set
                      /\ calls[a].maxScore >= calls[a + 1].maxScore
                /\ {calls[a].set : a \in 1..Len(calls)}
                      = {k \in 1..Len(c.commonKmerSets) : QualifiesAt(c, k, r)}
                /\ \A a \in 1..(Len(c.runs[r].result) - 1) :
                      PositionOf(c, c.runs[r].result[a].readName,
                                 c.runs[r].result[a].refName)
                        <= PositionOf(c, c.runs[r].result[a + 1].readName,
                                      c.runs[r].result[a + 1].refName)

\* C19: the normalization basis of every driver run of an invocation is the
\* largest maxScore among the surviving candidates of both strands (0 when
\* none survives), the same for every level, and the absolute low and high
\* thresholds of the run of level r are the fractions of level r's profile
\* multiplied by it.
C19_NormalizationBasis ==
    \A p \in SoloProcs :
        LET c     == call[p]
            basis == MaxOf({c.commonKmerSets[k].m_maxScore :
                               k \in 1..Len(c.commonKmerSets)})
        IN  \A r \in 1..Len(c.runs) :
                /\ c.runs[r].maxScoreAllSets = basis
                /\ c.runs[r].maxScoreAllSets = c.runs[1].maxScoreAllSets
                /\ c.runs[r].thresholds.lowScoreThreshold
                      = LEVEL_PROFILES[r].lowScoreThreshold * basis
                /\ c.runs[r].thresholds.highScoreThreshold
                      = LEVEL_PROFILES[r].highScoreThreshold * basis

====
